---- MODULE Spec2Model ----
(***************************************************************************)
(* Model of main.py, the point cloud bounding box generator: one run of    *)
(* main() -> process_point_clouds() over a small file system, and the two  *)
(* pure helpers get_las_files and create_bounding_box_points.              *)
(*                                                                         *)
(* File names are sequences of one-character strings so that pattern       *)
(* matching is computed on the characters.  Header values are pairs        *)
(* <<kind, value>>: a float, an int, a NaN or a missing attribute.         *)
(***************************************************************************)
EXTENDS Integers, Sequences, FiniteSets, TLC

\* ------------------------------------------------------------------ bounds
\* Largest number of entries of the input directory.
MaxEntries == 2
\* Header extents range over 0..MaxCoord (and NaN).
MaxCoord == 2

\* ------------------------------------------------------------ header values
\* A header value is <<kind, n>>: a float or an int of value n, a NaN, or
\* an attribute that does not exist on the header object (duck typing).
FloatVal(n) == <<"float", n>>
IntVal(n) == <<"int", n>>
NaN == <<"nan", 0>>
Absent == <<"absent", 0>>

\* float(v): an int becomes the float of the same value; floats, NaN
\* included, are returned unchanged.
float(v) == IF v[1] = "int" THEN FloatVal(v[2]) ELSE v

\* int(v) of a number: a float becomes an int (the model's floats are
\* whole numbers, so truncation keeps the value); int(NaN) raises, see
\* RaisesValueError.
int(v) == IF v[1] = "float" THEN IntVal(v[2]) ELSE v

\* int(header.point_count) raises ValueError for a NaN.
RaisesValueError(header) == header.point_count = NaN

MkHeader(x0, x1, y0, y1, n) ==
    [x_min |-> x0, x_max |-> x1, y_min |-> y0, y_max |-> y1, point_count |-> n]

\* Variant: only point_count is looked up on the header.
RaisesOnlyForPointCount(header) ==
    header.point_count = Absent

\* create_bounding_box_points raises AttributeError when an extent is
\* missing (line 133).
RaisesInBoundingBox(header) ==
    \/ header.x_min = Absent
    \/ header.x_max = Absent
    \/ header.y_min = Absent
    \/ header.y_max = Absent

\* Attribute access raises AttributeError when the attribute is missing:
\* an extent at line 133, the point count at line 147.
RaisesAttributeError(header) ==
    \/ RaisesInBoundingBox(header)
    \/ header.point_count = Absent

\* Variant: the ring is left open (the closing vertex is forgotten).
create_bounding_box_points_open(header) ==
    << <<header.x_min, header.y_min>>,
       <<header.x_min, header.y_max>>,
       <<header.x_max, header.y_max>>,
       <<header.x_max, header.y_min>> >>

\* create_bounding_box_points(header): the five corner points, in order.
create_bounding_box_points(header) ==
    << <<header.x_min, header.y_min>>,
       <<header.x_min, header.y_max>>,
       <<header.x_max, header.y_max>>,
       <<header.x_max, header.y_min>>,
       <<header.x_min, header.y_min>> >>

\* The feature built from a file name and its header (lines 136-149).
MakeFeature(name, header) ==
    [geometry   |-> [type |-> "Polygon",
                     coordinates |-> <<create_bounding_box_points(header)>>],
     properties |-> [filename |-> name,
                     x_min |-> float(header.x_min),
                     x_max |-> float(header.x_max),
                     y_min |-> float(header.y_min),
                     y_max |-> float(header.y_max),
                     points |-> int(header.point_count)]]

\* ------------------------------------------------------------- file names
Lower(c) ==
    CASE c = "L" -> "l"
      [] c = "A" -> "a"
      [] c = "S" -> "s"
      [] c = "Z" -> "z"
      [] OTHER -> c

LowerName(s) == [i \in 1..Len(s) |-> Lower(s[i])]

\* os.path.normcase: identity on POSIX, lower case on Windows.
normcase(s, posix) == IF posix THEN s ELSE LowerName(s)

PatLas == <<".", "l", "a", "s">>
PatLaz == <<".", "l", "a", "z">>

\* fnmatch of a name against "*" followed by the literal suffix pat.
fnmatch(name, pat, posix) ==
    /\ Len(name) >= Len(pat)
    /\ SubSeq(normcase(name, posix), Len(name) - Len(pat) + 1, Len(name))
         = normcase(pat, posix)

\* Path.glob(pattern): the direct children whose name matches, in the
\* order the directory enumerates them; files and directories alike.
glob(listing, pat, posix) ==
    SelectSeq(listing, LAMBDA e : fnmatch(e.name, pat, posix))

\* get_las_files for an existing folder (lines 42-46).
get_las_files(listing, posix) ==
    glob(listing, PatLas, posix) \o glob(listing, PatLaz, posix)


\* ------------------------------------------------------ the file system
N_a_las == <<"a", ".", "l", "a", "s">>
N_b_LAS == <<"b", ".", "L", "A", "S">>
N_c_laz == <<"c", ".", "l", "a", "z">>
N_n_txt == <<"n", ".", "t", "x", "t">>
N_d_las == <<"d", ".", "l", "a", "s">>
N_out   == <<"o", "u", "t">>
\* The default output folder, PointCloud_laz_BBOX (line 87).
N_bbox  == <<"P", "o", "i", "n", "t", "C", "l", "o", "u", "d", "_",
             "l", "a", "z", "_", "B", "B", "O", "X">>

\* What reading a file does: laspy.open succeeds or raises, the header it
\* exposes, and whether the dataset writer accepts the feature.
H_normal      == MkHeader(FloatVal(0), FloatVal(MaxCoord), FloatVal(0), FloatVal(1), IntVal(1))
H_zero_points == MkHeader(FloatVal(0), FloatVal(MaxCoord), FloatVal(0), FloatVal(1), IntVal(0))
H_nan         == MkHeader(NaN, FloatVal(MaxCoord), FloatVal(0), FloatVal(1), IntVal(1))
H_absent      == MkHeader(Absent, FloatVal(MaxCoord), FloatVal(0), FloatVal(1), IntVal(1))
H_no_count    == MkHeader(FloatVal(0), FloatVal(MaxCoord), FloatVal(0), FloatVal(1), Absent)

Unreadable == [open_ok |-> FALSE, header |-> H_normal, write_ok |-> TRUE]

Readable == [open_ok |-> TRUE, header |-> H_normal, write_ok |-> TRUE]

Contents ==
    { Unreadable,
      Readable,
      [open_ok |-> TRUE, header |-> H_zero_points, write_ok |-> TRUE],
      [open_ok |-> TRUE, header |-> H_nan,         write_ok |-> TRUE],
      [open_ok |-> TRUE, header |-> H_normal,      write_ok |-> FALSE] }

\* A header that lacks an extent, and one that lacks the point count.
NoExtent == [open_ok |-> TRUE, header |-> H_absent,   write_ok |-> TRUE]
NoCount  == [open_ok |-> TRUE, header |-> H_no_count, write_ok |-> TRUE]

\* Directory entries: regular files with any of the contents (one of them
\* may lack an extent, the other the point count; the upper-case one is
\* readable or unreadable), a text file, a directory whose name ends in
\* .las, and the subdirectory a run with the default output folder leaves
\* behind.
Entries ==
    { [name |-> N_a_las, isDir |-> FALSE, content |-> c] :
          c \in Contents \cup {NoExtent} }
    \cup { [name |-> N_c_laz, isDir |-> FALSE, content |-> c] :
               c \in Contents \cup {NoCount} }
    \cup { [name |-> N_b_LAS, isDir |-> FALSE, content |-> c] :
               c \in {Unreadable, Readable} }
    \cup { [name |-> N_n_txt, isDir |-> FALSE, content |-> Unreadable],
           [name |-> N_d_las, isDir |-> TRUE,  content |-> Unreadable],
           [name |-> N_bbox,  isDir |-> TRUE,  content |-> Unreadable] }

\* A directory lists each name once; on a case-insensitive file system two
\* names that differ only in case cannot coexist.
DistinctNames(l) ==
    \A i, j \in 1..Len(l) : i # j => l[i].name # l[j].name

Listings ==
    { l \in UNION { [1..n -> Entries] : n \in 0..MaxEntries } : DistinctNames(l) }

Names(l) == [i \in 1..Len(l) |-> l[i].name]

VARIABLES
    posix,             \* os.name = "posix": glob is case-sensitive
    input_exists,      \* the input folder exists
    listing,           \* its direct children, in enumeration order
    output_arg,        \* "None" or "given" (-o/--output)
    out_name,          \* last component of output_path
    out_in_input,      \* output_path is a direct child of the input folder
    out_parent_exists, \* the parent of output_path exists
    out_state,         \* output_path is "absent", a "dir" or a "file"
    created_dir,       \* this run created output_path
    pc,                \* position in main / process_point_clouds
    las_files,         \* the list returned by get_las_files
    idx,               \* index of the current las_file (0 before the loop)
    attempts,          \* names handed to laspy.open, in order
    fh_open,           \* indices of las_files whose handle is open
    header,            \* fh.header of the current file
    bbox_points,       \* result of create_bounding_box_points
    feature,           \* the feature built for the current file
    dst,               \* dataset handle: "unopened", "open", "closed"
    dataset_exists,    \* this run created the shapefile
    dataset,           \* the features written to it, in order
    warnings,          \* the "Warning: Could not process" lines printed
    exc,               \* exception being raised / last error printed
    result,            \* return value of process_point_clouds
    exit_code          \* -1 while running, then the process exit code

vars == << posix, input_exists, listing, output_arg, out_name,
           out_in_input, out_parent_exists, out_state, created_dir, pc, las_files, idx, attempts, fh_open,
           header, bbox_points, feature, dst, dataset_exists, dataset,
           warnings, exc, result, exit_code >>

\* The command line and the platform.
args == << posix, input_exists, output_arg, out_name, out_in_input,
           out_parent_exists >>

env == << args, listing >>

\* What the input folder holds under the name of the output folder.
StateIn(l, name) ==
    IF \E i \in 1..Len(l) : l[i].name = name /\ l[i].isDir THEN "dir"
    ELSE IF \E i \in 1..Len(l) : l[i].name = name THEN "file"
    ELSE "absent"

\* The directory mkdir creates, as an entry of its parent.
OutputEntry(name) == [name |-> name, isDir |-> TRUE, content |-> Unreadable]

\* The listing with one more entry, at position k + 1 of the enumeration.
InsertAt(l, k, e) == SubSeq(l, 1, k) \o <<e>> \o SubSeq(l, k + 1, Len(l))

NoFeature == MakeFeature(<<>>, H_normal)

\* State of the run before main() does anything.
RunStart ==
    /\ created_dir = FALSE
    /\ las_files = <<>>
    /\ idx = 0
    /\ attempts = <<>>
    /\ fh_open = {}
    /\ bbox_points = <<>>
    /\ feature = NoFeature
    /\ dst = "unopened"
    /\ dataset_exists = FALSE
    /\ dataset = <<>>
    /\ warnings = <<>>
    /\ exc = "none"
    /\ result = "none"
    /\ exit_code = -1

Init ==
    /\ posix \in BOOLEAN
    /\ input_exists \in BOOLEAN
    /\ listing \in Listings
    /\ (~input_exists => listing = <<>>)
    /\ output_arg \in {"None", "given"}
    /\ out_in_input \in BOOLEAN
    /\ out_name \in {N_bbox, N_d_las, N_c_laz, N_out}
    /\ out_parent_exists \in BOOLEAN
    /\ out_state \in {"absent", "dir", "file"}
    \* the default output folder is <input>/PointCloud_laz_BBOX
    /\ (output_arg = "None" => out_in_input /\ out_name = N_bbox)
    \* -o names a child of the input folder or a folder elsewhere
    /\ (output_arg = "given" =>
           out_name \in (IF out_in_input THEN {N_d_las, N_c_laz} ELSE {N_out}))
    \* a child of the input folder is what the folder lists under its name
    /\ (out_in_input =>
           /\ out_parent_exists = input_exists
           /\ out_state = StateIn(listing, out_name))
    \* elsewhere the output folder exists as a directory or not at all
    /\ (~out_in_input => out_state \in {"absent", "dir"})
    /\ (out_state # "absent" => out_parent_exists)
    /\ header = H_normal
    /\ pc = "Start"
    /\ RunStart

\* An exception leaves process_point_clouds and reaches main's handler.
Raise(e) ==
    /\ exc' = e
    /\ pc' = "MainExcept"

\* Lines 82-91: resolve output_path and output_path.mkdir(exist_ok=True).
\* An existing directory is accepted, an existing file or a missing parent
\* raises; otherwise the directory is created, and when it lies in the
\* input folder it becomes one of the folder's children, at any place of
\* the enumeration order.
MakeOutputDir ==
    /\ pc = "Start"
    /\ IF out_state = "dir"
       THEN /\ pc' = "Discover"
            /\ UNCHANGED << out_state, created_dir, exc, listing >>
       ELSE IF out_state = "file"
       THEN /\ Raise("FileExistsError: File exists")
            /\ UNCHANGED << out_state, created_dir, listing >>
       ELSE IF ~out_parent_exists
       THEN /\ Raise("FileNotFoundError: No such file or directory")
            /\ UNCHANGED << out_state, created_dir, listing >>
       ELSE /\ out_state' = "dir"
            /\ created_dir' = TRUE
            /\ IF out_in_input
               THEN \E k \in 0..Len(listing) :
                       listing' = InsertAt(listing, k, OutputEntry(out_name))
               ELSE UNCHANGED listing
            /\ pc' = "Discover"
            /\ UNCHANGED exc
    /\ UNCHANGED << args, las_files, idx, attempts, fh_open, header,
                    bbox_points, feature, dst, dataset_exists, dataset,
                    warnings, result, exit_code >>

\* Line 97 with get_las_files, lines 38-46.
Discover ==
    /\ pc = "Discover"
    /\ IF ~input_exists
       THEN /\ Raise("FileNotFoundError: Folder not found")
            /\ UNCHANGED las_files
       ELSE /\ las_files' = get_las_files(listing, posix)
            /\ pc' = "CheckEmpty"
            /\ UNCHANGED exc
    /\ UNCHANGED << env, out_state, created_dir, idx, attempts, fh_open,
                    header, bbox_points, feature, dst, dataset_exists,
                    dataset, warnings, result, exit_code >>

\* Variant: the empty-discovery check is missing.
CheckEmptyMissing ==
    /\ pc = "CheckEmpty"
    /\ pc' = "OpenDataset"
    /\ UNCHANGED << env, out_state, created_dir, las_files, idx, attempts,
                    fh_open, header, bbox_points, feature, dst,
                    dataset_exists, dataset, warnings, exc, result,
                    exit_code >>

\* Lines 99-103: an empty discovery is an error.
CheckEmpty ==
    /\ pc = "CheckEmpty"
    /\ IF las_files = <<>>
       THEN Raise("ValueError: No .las or .laz files found")
       ELSE /\ pc' = "OpenDataset"
            /\ UNCHANGED exc
    /\ UNCHANGED << env, out_state, created_dir, las_files, idx, attempts,
                    fh_open, header, bbox_points, feature, dst,
                    dataset_exists, dataset, warnings, result, exit_code >>

\* Lines 119-125: fiona.open(..., 'w'); the writer may refuse (bad CRS,
\* permissions), which propagates.
OpenDataset ==
    /\ pc = "OpenDataset"
    /\ \E ok \in BOOLEAN :
          IF ok
          THEN /\ dst' = "open"
               /\ dataset_exists' = TRUE
               /\ dataset' = <<>>
               /\ pc' = "LoopNext"
               /\ UNCHANGED exc
          ELSE /\ Raise("fiona.open failed")
               /\ UNCHANGED << dst, dataset_exists, dataset >>
    /\ UNCHANGED << env, out_state, created_dir, las_files, idx, attempts,
                    fh_open, header, bbox_points, feature, warnings,
                    result, exit_code >>

\* Line 127: the for loop takes the next file or ends.
LoopNext ==
    /\ pc = "LoopNext"
    /\ IF idx < Len(las_files)
       THEN /\ idx' = idx + 1
            /\ pc' = "LasOpen"
       ELSE /\ pc' = "CloseDataset"
            /\ UNCHANGED idx
    /\ UNCHANGED << env, out_state, created_dir, las_files, attempts,
                    fh_open, header, bbox_points, feature, dst,
                    dataset_exists, dataset, warnings, exc, result,
                    exit_code >>

\* Line 129: laspy.open(str(las_file)); a directory or an unreadable file
\* raises and no handle is left open.
LasOpen ==
    /\ pc = "LasOpen"
    /\ attempts' = Append(attempts, las_files[idx].name)
    /\ IF las_files[idx].isDir \/ ~las_files[idx].content.open_ok
       THEN /\ exc' = "laspy.open failed"
            /\ pc' = "Except"
            /\ UNCHANGED fh_open
       ELSE /\ fh_open' = fh_open \cup {idx}
            /\ pc' = "BuildFeature"
            /\ UNCHANGED exc
    /\ UNCHANGED << env, out_state, created_dir, las_files, idx, header,
                    bbox_points, feature, dst, dataset_exists, dataset,
                    warnings, result, exit_code >>

\* Variant: the file is opened without a with statement, so a failure
\* while reading the header leaves the handle open.
BuildFeatureLeak ==
    /\ pc = "BuildFeature"
    /\ header' = las_files[idx].content.header
    /\ IF RaisesAttributeError(header') \/ RaisesValueError(header')
       THEN /\ exc' = IF RaisesAttributeError(header')
                      THEN "AttributeError" ELSE "ValueError"
            /\ bbox_points' = IF RaisesInBoundingBox(header')
                              THEN bbox_points
                              ELSE create_bounding_box_points(header')
            /\ pc' = "Except"
            /\ UNCHANGED << feature, fh_open >>
       ELSE /\ bbox_points' = create_bounding_box_points(header')
            /\ feature' = MakeFeature(las_files[idx].name, header')
            /\ pc' = "WriteFeature"
            /\ UNCHANGED << exc, fh_open >>
    /\ UNCHANGED << env, out_state, created_dir, las_files, idx, attempts,
                    dst, dataset_exists, dataset, warnings, result,
                    exit_code >>

\* Lines 130-149: read the header, build the ring (line 133), then the
\* feature.  A missing attribute raises; when it is the point count that
\* fails (line 147) the ring has already been assigned.  The with statement
\* closes the handle.
BuildFeature ==
    /\ pc = "BuildFeature"
    /\ header' = las_files[idx].content.header
    /\ IF RaisesAttributeError(header') \/ RaisesValueError(header')
       THEN /\ exc' = IF RaisesAttributeError(header')
                      THEN "AttributeError" ELSE "ValueError"
            /\ bbox_points' = IF RaisesInBoundingBox(header')
                              THEN bbox_points
                              ELSE create_bounding_box_points(header')
            /\ fh_open' = fh_open \ {idx}
            /\ pc' = "Except"
            /\ UNCHANGED feature
       ELSE /\ bbox_points' = create_bounding_box_points(header')
            /\ feature' = MakeFeature(las_files[idx].name, header')
            /\ pc' = "WriteFeature"
            /\ UNCHANGED << exc, fh_open >>
    /\ UNCHANGED << env, out_state, created_dir, las_files, idx, attempts,
                    dst, dataset_exists, dataset, warnings, result,
                    exit_code >>

\* Variant: the new feature is put in front of the ones already written.
WriteFeaturePrepend ==
    /\ pc = "WriteFeature"
    /\ fh_open' = fh_open \ {idx}
    /\ IF las_files[idx].content.write_ok
       THEN /\ dataset' = <<feature>> \o dataset
            /\ pc' = "LoopNext"
            /\ UNCHANGED exc
       ELSE /\ exc' = "dst.write failed"
            /\ pc' = "Except"
            /\ UNCHANGED dataset
    /\ UNCHANGED << env, out_state, created_dir, las_files, idx, attempts,
                    header, bbox_points, feature, dst, dataset_exists,
                    warnings, result, exit_code >>

\* Line 151 and the end of the with block of line 129.
WriteFeature ==
    /\ pc = "WriteFeature"
    /\ fh_open' = fh_open \ {idx}
    /\ IF las_files[idx].content.write_ok
       THEN /\ dataset' = Append(dataset, feature)
            /\ pc' = "LoopNext"
            /\ UNCHANGED exc
       ELSE /\ exc' = "dst.write failed"
            /\ pc' = "Except"
            /\ UNCHANGED dataset
    /\ UNCHANGED << env, out_state, created_dir, las_files, idx, attempts,
                    header, bbox_points, feature, dst, dataset_exists,
                    warnings, result, exit_code >>

\* Variant: the handler re-raises instead of continuing.
ExceptReraise ==
    /\ pc = "Except"
    /\ warnings' = Append(warnings, [filename |-> las_files[idx].name,
                                      error |-> exc])
    /\ pc' = "MainExcept"
    /\ UNCHANGED << env, out_state, created_dir, las_files, idx, attempts,
                    fh_open, header, bbox_points, feature, dst,
                    dataset_exists, dataset, exc, result, exit_code >>

\* Lines 153-155: print the warning and continue with the next file.
Except ==
    /\ pc = "Except"
    /\ warnings' = Append(warnings, [filename |-> las_files[idx].name,
                                      error |-> exc])
    /\ exc' = "none"
    /\ pc' = "LoopNext"
    /\ UNCHANGED << env, out_state, created_dir, las_files, idx, attempts,
                    fh_open, header, bbox_points, feature, dst,
                    dataset_exists, dataset, result, exit_code >>

\* End of the with block of line 119: the dataset is flushed and closed.
CloseDataset ==
    /\ pc = "CloseDataset"
    /\ dst' = "closed"
    /\ pc' = "Return"
    /\ UNCHANGED << env, out_state, created_dir, las_files, idx, attempts,
                    fh_open, header, bbox_points, feature, dataset_exists,
                    dataset, warnings, exc, result, exit_code >>

\* Line 157 and main, lines 183-185: return the path, print success.
Return ==
    /\ pc = "Return"
    /\ result' = "shapefile_path"
    /\ exit_code' = 0
    /\ pc' = "Done"
    /\ UNCHANGED << env, out_state, created_dir, las_files, idx, attempts,
                    fh_open, header, bbox_points, feature, dst,
                    dataset_exists, dataset, warnings, exc >>

\* main, lines 186-188: print the error and sys.exit(1); when that print
\* raises, the uncaught exception ends the process with status 1 as well.
MainExcept ==
    /\ pc = "MainExcept"
    /\ exit_code' = 1
    /\ pc' = "Done"
    /\ UNCHANGED << env, out_state, created_dir, las_files, idx, attempts,
                    fh_open, header, bbox_points, feature, dst,
                    dataset_exists, dataset, warnings, exc, result >>

Next ==
    \/ MakeOutputDir
    \/ Discover
    \/ CheckEmpty
    \/ OpenDataset
    \/ LoopNext
    \/ LasOpen
    \/ BuildFeature
    \/ WriteFeature
    \/ Except
    \/ CloseDataset
    \/ Return
    \/ MainExcept

Spec == Init /\ [][Next]_vars

\* ------------------------- exceptions that leave the with block of line 119
\* Line 127: the tqdm iterator raises (its progress stream is unusable).
\* The for statement is outside the try of line 128, so the error leaves
\* the with block.
IterFails ==
    /\ pc = "LoopNext"
    /\ exc' = "tqdm failed"
    /\ pc' = "Unwind"
    /\ UNCHANGED << env, out_state, created_dir, las_files, idx, attempts,
                    fh_open, header, bbox_points, feature, dst,
                    dataset_exists, dataset, warnings, result, exit_code >>

\* Line 154: the print of the warning raises (stdout is closed or broken).
\* The handler is not itself protected, so the error leaves the with
\* block; the warning is not printed.
WarnFails ==
    /\ pc = "Except"
    /\ exc' = "print failed"
    /\ pc' = "Unwind"
    /\ UNCHANGED << env, out_state, created_dir, las_files, idx, attempts,
                    fh_open, header, bbox_points, feature, dst,
                    dataset_exists, dataset, warnings, result, exit_code >>

\* Variant: fiona.open is called without a with statement and closed after
\* the loop, so an exception passes by with the dataset still open.
UnwindNoClose ==
    /\ pc = "Unwind"
    /\ pc' = "MainExcept"
    /\ UNCHANGED << env, out_state, created_dir, las_files, idx, attempts,
                    fh_open, header, bbox_points, feature, dst,
                    dataset_exists, dataset, warnings, exc, result,
                    exit_code >>

\* Lines 119-125, the with statement left by an exception: the dataset is
\* flushed and closed, and the exception goes on to main's handler.
Unwind ==
    /\ pc = "Unwind"
    /\ dst' = "closed"
    /\ pc' = "MainExcept"
    /\ UNCHANGED << env, out_state, created_dir, las_files, idx, attempts,
                    fh_open, header, bbox_points, feature, dataset_exists,
                    dataset, warnings, exc, result, exit_code >>

\* Lines 102-103: the print of the file count or of the output path
\* raises (stdout is closed or full).  The dataset is not yet open; the
\* error goes to main's handler.
FoundFails ==
    /\ pc = "CheckEmpty"
    /\ las_files # <<>>
    /\ Raise("print failed")
    /\ UNCHANGED << env, out_state, created_dir, las_files, idx, attempts,
                    fh_open, header, bbox_points, feature, dst,
                    dataset_exists, dataset, warnings, result, exit_code >>

\* Line 157 and main, lines 184-185: the path is returned and the print
\* of the success message or of the CRS raises inside main's try.
SuccessFails ==
    /\ pc = "Return"
    /\ result' = "shapefile_path"
    /\ Raise("print failed")
    /\ UNCHANGED << env, out_state, created_dir, las_files, idx, attempts,
                    fh_open, header, bbox_points, feature, dst,
                    dataset_exists, dataset, warnings, exit_code >>

\* Interpreter exit after main, lines 190-191: stdout is block-buffered
\* and cannot be flushed (device full), so no print raised during the
\* run and the exit status is 120, after the success path as after
\* main's handler.
ExitFlushFails ==
    /\ pc \in {"Return", "MainExcept"}
    /\ result' = IF pc = "Return" THEN "shapefile_path" ELSE result
    /\ exit_code' = 120
    /\ pc' = "Done"
    /\ UNCHANGED << env, out_state, created_dir, las_files, idx, attempts,
                    fh_open, header, bbox_points, feature, dst,
                    dataset_exists, dataset, warnings, exc >>

\* A run in which the progress bar, a print or the final flush of stdout
\* may fail as well.
NextRaising ==
    \/ Next
    \/ IterFails
    \/ WarnFails
    \/ Unwind
    \/ FoundFails
    \/ SuccessFails
    \/ ExitFlushFails

\* Runs with the default output folder, over every input folder: where
\* the output folder lies plays no part once the dataset is open.
InitDefaultOutput == Init /\ output_arg = "None"

\* The interpreter runs the script to its end: some step is always taken
\* while one is enabled.
FairSpec ==
    InitDefaultOutput /\ [][NextRaising]_vars /\ WF_vars(NextRaising)


\* ------------------------------------- create_bounding_box_points alone
Coords == { FloatVal(n) : n \in 0..MaxCoord } \cup {NaN}

Headers ==
    { MkHeader(a, b, c, d, IntVal(n)) : a \in Coords, b \in Coords,
                                     c \in Coords, d \in Coords, n \in {0, 1} }

InitBBox ==
    /\ posix = TRUE
    /\ input_exists = TRUE
    /\ listing = <<>>
    /\ output_arg = "None"
    /\ out_name = N_bbox
    /\ out_in_input = TRUE
    /\ out_parent_exists = TRUE
    /\ out_state = "absent"
    /\ header \in Headers
    /\ pc = "CallBBox"
    /\ RunStart

\* A call of create_bounding_box_points(header), lines 59-65.
CallBBox ==
    /\ pc = "CallBBox"
    /\ bbox_points' = create_bounding_box_points(header)
    /\ pc' = "BBoxDone"
    /\ UNCHANGED << env, out_state, created_dir, las_files, idx, attempts,
                    fh_open, header, feature, dst, dataset_exists, dataset,
                    warnings, exc, result, exit_code >>

SpecBBox == InitBBox /\ [][CallBBox]_vars


\* ------------------------------------------------------------ properties
Terminated == pc = "Done"

\* The file cannot be opened or its header cannot be read.
FailsInRead(e) ==
    \/ e.isDir
    \/ ~e.content.open_ok
    \/ e.content.header.x_min = Absent
    \/ e.content.header.x_max = Absent
    \/ e.content.header.y_min = Absent
    \/ e.content.header.y_max = Absent
    \/ e.content.header.point_count = Absent
    \/ e.content.header.point_count = NaN

\* The file is readable and the writer accepts its feature.
Succeeds(e) == ~FailsInRead(e) /\ e.content.write_ok

Written == [i \in 1..Len(dataset) |-> dataset[i].properties.filename]
Warned == [i \in 1..Len(warnings) |-> warnings[i].filename]

Range(f) == { f[i] : i \in DOMAIN f }
NoDuplicates(f) == \A i, j \in DOMAIN f : i # j => f[i] # f[j]

\* The environment holds K >= 2 discovered files, exactly one of which
\* fails in open / header read while all the others succeed.
ExactlyOneReadFailure(files) ==
    /\ Len(files) >= 2
    /\ \E i \in 1..Len(files) :
          /\ FailsInRead(files[i])
          /\ \A j \in 1..Len(files) : j # i => Succeeds(files[j])

\* C1: per-file fault isolation.  When a run whose dataset was opened has
\* ended and exactly one of the K >= 2 discovered files fails in open or
\* header read, the dataset holds the K-1 other files' features, a single
\* warning names the failing file, the path was returned and the exit code
\* is 0.
C1_FaultIsolation ==
    (Terminated /\ dst # "unopened" /\ ExactlyOneReadFailure(las_files)) =>
        /\ Len(dataset) = Len(las_files) - 1
        /\ Len(warnings) = 1
        /\ \E i \in 1..Len(las_files) :
              /\ FailsInRead(las_files[i])
              /\ Warned = << las_files[i].name >>
              /\ Range(Written) = Range(Names(las_files)) \ {las_files[i].name}
        /\ result = "shapefile_path"
        /\ exit_code = 0

C1_Witness ==
    /\ Terminated
    /\ dst = "closed"
    /\ ExactlyOneReadFailure(las_files)
    /\ Len(dataset) = Len(las_files) - 1
    /\ Len(warnings) = 1
    /\ exit_code = 0

\* The exceptions that the try of line 128 does not catch.
Propagating == {"tqdm failed", "print failed"}

\* C2: run lifecycle.  Once the dataset is open it is eventually closed,
\* whatever files fail in open, header read or write and also when an
\* exception propagates out of the loop; a run that opened the dataset
\* never ends, and never reaches main's error handler, with it open; a
\* failure of a file in open, header read or write is always followed by
\* the next file (or by the exception of the warning print), never by
\* main's error handler: main's handler runs after the dataset was opened
\* only for an exception of the progress bar or of a print, and without
\* one the path is returned and the exit code is 0 (120 when the final
\* flush of stdout fails), never 1.
C2_Lifecycle ==
    /\ (dst = "open") ~> (dst = "closed")
    /\ []((Terminated /\ dst # "unopened") => dst = "closed")
    /\ [](pc = "MainExcept" => (dst = "unopened" \/ dst = "closed"))
    /\ []((pc = "MainExcept" /\ dst # "unopened") => exc \in Propagating)
    /\ []((Terminated /\ dst # "unopened" /\ exc \notin Propagating) =>
             (exit_code \in {0, 120} /\ result = "shapefile_path"))
    /\ []((Terminated /\ dst # "unopened" /\ exc \in Propagating) =>
             exit_code \in {1, 120})

\* After a feature was written a second file failed and the print of its
\* warning raised: the exception propagated, nothing was returned and the
\* dataset is closed with the partial result.
C2_Witness ==
    /\ Terminated
    /\ dst = "closed"
    /\ exc = "print failed"
    /\ exit_code = 1
    /\ result = "none"
    /\ Len(dataset) >= 1
    /\ Len(attempts) = Len(dataset) + 1
    /\ warnings = <<>>

\* C3: a missing input directory ends the run with a non-zero exit code
\* and a "not found" error, before the dataset is opened, and no output
\* directory is created, with a defaulted or an explicit output folder.
C3_NoInputFolder ==
    (Terminated /\ ~input_exists) =>
        /\ exit_code = 1
        /\ exc \in { "FileNotFoundError: Folder not found",
                     "FileNotFoundError: No such file or directory" }
        /\ dst = "unopened"
        /\ ~created_dir

\* The children the input folder had before the run: the listing without
\* the output folder this run created in it.
OriginalListing ==
    SelectSeq(listing,
              LAMBDA e : ~(created_dir /\ out_in_input /\ e.name = out_name))

\* C4: when the input directory exists and holds no entry that discovery
\* matches, the run ends with a non-zero exit code, the dataset is never
\* opened (NoMatchingFiles comes before DatasetOpen) and no dataset file
\* is created.
C4_NoMatchingFiles ==
    (Terminated /\ input_exists
       /\ get_las_files(OriginalListing, posix) = <<>>) =>
        /\ exit_code = 1
        /\ dst = "unopened"
        /\ ~dataset_exists

\* C5 as stated: a dataset that was created and closed holds at least one
\* feature.
C5_NeverEmpty ==
    (dataset_exists /\ dst = "closed") => Len(dataset) >= 1

\* C5 amended: a dataset is only created for a non-empty discovery, and
\* when it is closed it holds one feature per discovered file that was
\* read and written successfully: at least one feature exactly when some
\* discovered file succeeds, none when every discovered file fails.
C5_NonEmptyDiscovery ==
    dataset_exists =>
        /\ Len(las_files) >= 1
        /\ dst = "closed" =>
              /\ Len(dataset) =
                   Cardinality({ i \in 1..Len(las_files) : Succeeds(las_files[i]) })
              /\ (Len(dataset) >= 1 <=>
                     \E i \in 1..Len(las_files) : Succeeds(las_files[i]))

C5_Witness ==
    /\ dataset_exists
    /\ dst = "closed"
    /\ dataset = <<>>
    /\ Len(warnings) = Len(las_files)
    /\ Len(las_files) >= 2

\* Number of discovered files whose turn in the loop is over.
Processed ==
    IF pc \in {"LasOpen", "BuildFeature", "WriteFeature", "Except"}
    THEN idx - 1 ELSE idx

\* C6: at every point of a run the file names of the features written so
\* far are those of the successfully processed files among the discovered
\* files handled so far, in discovery order, none twice.
C6_DiscoveryOrder ==
    /\ Written = Names(SelectSeq(SubSeq(las_files, 1, Processed), Succeeds))
    /\ NoDuplicates(Written)
    /\ dst = "closed" => Written = Names(SelectSeq(las_files, Succeeds))

C6_Witness ==
    /\ dst = "closed"
    /\ Len(dataset) >= 2
    /\ listing[1].name = N_c_laz
    /\ las_files[1].name = N_a_las
    /\ Written = Names(las_files)

\* A regular file whose extension is .las or .laz in any letter case.
IsLasFile(e) ==
    /\ ~e.isDir
    /\ Len(e.name) >= Len(PatLas)
    /\ LowerName(SubSeq(e.name, Len(e.name) - Len(PatLas) + 1, Len(e.name)))
         \in {PatLas, PatLaz}

\* C7: the list returned by get_las_files has exactly N entries, each
\* .las/.laz file (case-insensitive) of the directory exactly once and
\* nothing else.
C7_Discovery ==
    pc = "CheckEmpty" =>
        /\ Len(las_files) =
             Cardinality({ i \in 1..Len(listing) : IsLasFile(listing[i]) })
        /\ \A i \in 1..Len(listing) :
              IsLasFile(listing[i]) =>
                 Cardinality({ j \in 1..Len(las_files) :
                                  las_files[j] = listing[i] }) = 1

\* C8: create_bounding_box_points returns exactly five vertices
\* (x_min,y_min), (x_min,y_max), (x_max,y_max), (x_max,y_min),
\* (x_min,y_min), first and last identical; for a degenerate header all
\* five coincide (a zero-area closed ring).
C8_ClosedRing ==
    pc = "BBoxDone" =>
        /\ Len(bbox_points) = 5
        /\ bbox_points[1] = <<header.x_min, header.y_min>>
        /\ bbox_points[2] = <<header.x_min, header.y_max>>
        /\ bbox_points[3] = <<header.x_max, header.y_max>>
        /\ bbox_points[4] = <<header.x_max, header.y_min>>
        /\ bbox_points[5] = <<header.x_min, header.y_min>>
        /\ bbox_points[Len(bbox_points)] = bbox_points[1]
        /\ (header.x_min = header.x_max /\ header.y_min = header.y_max) =>
              \A i \in 1..Len(bbox_points) : bbox_points[i] = bbox_points[1]

C8_Witness ==
    /\ pc = "BBoxDone"
    /\ header.x_min = header.x_max
    /\ header.y_min = header.y_max
    /\ header.x_min = FloatVal(1)
    /\ Len(bbox_points) = 5

\* The header is malformed: no points, or an extent that is NaN or absent.
Malformed(h) ==
    \/ h.point_count = IntVal(0)
    \/ \E v \in {h.x_min, h.x_max, h.y_min, h.y_max} : v \in {NaN, Absent}

\* C9 as stated: a file that opens but has a malformed header is skipped
\* with a warning and contributes no feature.
C9_MalformedSkipped ==
    (Terminated /\ dst = "closed") =>
        \A i \in 1..Len(las_files) :
           ( /\ ~las_files[i].isDir
             /\ las_files[i].content.open_ok
             /\ Malformed(las_files[i].content.header) ) =>
               /\ las_files[i].name \notin Range(Written)
               /\ las_files[i].name \in Range(Warned)

\* C9 amended: of the files that open, only one whose header lacks an
\* attribute is skipped with a warning; a header with point_count zero or
\* a NaN extent is not a failure, and its feature is appended with those
\* values whenever the writer accepts it.
C9_OnlyAbsentSkipped ==
    (Terminated /\ dst = "closed") =>
        \A i \in 1..Len(las_files) :
           (~las_files[i].isDir /\ las_files[i].content.open_ok) =>
               LET e == las_files[i]
                   h == e.content.header
               IN  /\ FailsInRead(e) =>
                         /\ e.name \notin Range(Written)
                         /\ \E w \in 1..Len(warnings) :
                               warnings[w] = [filename |-> e.name,
                                              error |-> "AttributeError"]
                   /\ (~FailsInRead(e) /\ e.content.write_ok) =>
                         /\ e.name \notin Range(Warned)
                         /\ \E f \in 1..Len(dataset) :
                               /\ dataset[f].properties.filename = e.name
                               /\ dataset[f].properties.points = h.point_count
                               /\ dataset[f].properties.x_min = h.x_min
                               /\ dataset[f].properties.x_max = h.x_max
                               /\ dataset[f].properties.y_min = h.y_min
                               /\ dataset[f].properties.y_max = h.y_max

C9_Witness ==
    /\ Terminated
    /\ dst = "closed"
    /\ \E f \in 1..Len(dataset) :
          \/ dataset[f].properties.points = IntVal(0)
          \/ dataset[f].properties.x_min = NaN
    /\ \E w \in 1..Len(warnings) : warnings[w].error = "AttributeError"

\* C10: exactly-once accounting.  Files are attempted once each, in
\* order, without retry; at most one input handle is open and none is
\* open between two files, also after a failed attempt; once the dataset
\* is closed every discovered file is either written or warned about, not
\* both, so features + warnings = discovered files.
C10_ExactlyOnce ==
    /\ Cardinality(fh_open) <= 1
    /\ pc \notin {"BuildFeature", "WriteFeature"} => fh_open = {}
    /\ Len(attempts) =
          Processed + (IF pc \in {"BuildFeature", "WriteFeature", "Except"}
                       THEN 1 ELSE 0)
    /\ attempts = Names(SubSeq(las_files, 1, Len(attempts)))
    /\ Len(dataset) + Len(warnings) = Processed
    /\ dst = "closed" =>
          /\ attempts = Names(las_files)
          /\ Len(dataset) + Len(warnings) = Len(las_files)
          /\ Range(Written) \cup Range(Warned) = Range(Names(las_files))
          /\ Range(Written) \cap Range(Warned) = {}

C10_Witness ==
    /\ Terminated
    /\ dst = "closed"
    /\ Len(dataset) = 1
    /\ Len(warnings) = 1
    /\ warnings[1].error = "AttributeError"

====
